---- MODULE Spec2Model ----
(***************************************************************************)
(* VoipCore (audio/voip/voip_core.h): the registry of AudioChannel objects *)
(* keyed by ChannelId, the lazy initialization of the audio device module  *)
(* and the set of actively sending channels handed to AudioTransportImpl.  *)
(*                                                                         *)
(* The header gives the state (the members and their initial values), the  *)
(* lock discipline (RTC_GUARDED_BY(lock_)) and the signatures.  The method *)
(* bodies live in voip_core.cc; they are modelled here from the design     *)
(* description (spec.md, sections 3 to 5 and 7).                           *)
(*                                                                         *)
(* Caller threads run concurrently.  A thread's call is a sequence of      *)
(* steps; every step that touches channels_, next_channel_id_ or           *)
(* initialized_ takes lock_ and is atomic, a step on a channel obtained    *)
(* from GetChannel runs without lock_.                                     *)
(***************************************************************************)
EXTENDS Integers, Sequences, FiniteSets, TLC

\* ---------------------------------------------------------------- bounds
\* Channels constructed in a run; also the ids callers pass.
MaxChannels == 2

\* ------------------------------------------------------------- constants
\* "Returns nullptr if not found": the empty scoped_refptr<AudioChannel>.
nullptr == 0
\* lock_ held by no thread.
Unlocked == 0

\* Two caller threads.
Threads == {1, 2}
\* The ChannelId values a caller passes: the ids CreateChannel can issue
\* within the bound, so unknown, live and released ids all occur.
ChannelIds == 0 .. (MaxChannels - 1)
\* AudioChannel objects, numbered in order of construction.
Objects == 1 .. MaxChannels

StartOps == {"StartSend", "StartPlayout"}
StopOps == {"StopSend", "StopPlayout"}
\* VoipNetwork, VoipCodec, VoipDtmf and VoipStatistics: look the channel up
\* and forward the call to it.
DispatchOps ==
    {"ReceivedRTPPacket", "ReceivedRTCPPacket", "SetSendCodec",
     "SetReceiveCodecs", "RegisterTelephoneEventType", "SendDtmfEvent",
     "GetIngressStatistics"}
\* The methods that start with GetChannel(channel_id).
LookupOps == StartOps \cup StopOps \cup DispatchOps

\* Faulty variant: audio_device_module_ declared before audio_transport_.
MembersDeviceBeforeTransport ==
    <<"encoder_factory_", "decoder_factory_", "task_queue_factory_",
      "audio_processing_", "audio_mixer_", "audio_device_module_",
      "audio_transport_", "process_thread_", "lock_", "next_channel_id_",
      "channels_", "initialized_">>

\* The data members of VoipCore in declaration order.
Members ==
    <<"encoder_factory_", "decoder_factory_", "task_queue_factory_",
      "audio_processing_", "audio_mixer_", "audio_transport_",
      "audio_device_module_", "process_thread_", "lock_", "next_channel_id_",
      "channels_", "initialized_">>
\* The rtc::scoped_refptr members: the object goes with its last reference.
SharedMembers ==
    {"encoder_factory_", "decoder_factory_", "audio_processing_",
     "audio_mixer_", "audio_device_module_"}
\* The std::unique_ptr members: the object goes with the member.
UniqueMembers == {"task_queue_factory_", "audio_transport_", "process_thread_"}
\* The place of member m in the declaration order.
Index(m) == CHOOSE i \in DOMAIN Members : Members[i] = m

VARIABLES
    channels_,          \* ChannelId -> AudioChannel object (the registry map)
    next_channel_id_,   \* the next ChannelId to issue
    initialized_,       \* the audio device module has been initialized
    lock_,              \* the thread holding lock_, or Unlocked
    chan,               \* the AudioChannel objects constructed so far
    audio_senders,      \* the set of senders last given to AudioTransportImpl
    pc, op,             \* per thread: position in its call, the method called
    held,               \* per thread: the channel reference it holds
    ret,                \* what the call that returned in the last step reported
    issued,             \* history: the ids successful CreateChannel calls returned
    released,           \* history, per id: has ReleaseChannel(id) returned, and was
                        \* the id issued by then ("no", "unissued", "issued")
    sendFailed,         \* history: channels a StartSend failed on at initialization
    sawOutcome,         \* per thread waiting to initialize: a concurrent attempt's outcome
    redundant,          \* per thread in StartSend or StopSend, after its step on the
                        \* channel: the axis was already in the requested state
    constructed,        \* the members of VoipCore still constructed: the first
                        \* `constructed` in declaration order
    live                \* the members whose pointed-to object exists

registry == <<channels_, next_channel_id_>>
history == <<issued, released, sendFailed, sawOutcome>>
bundle == <<constructed, live>>
\* Member m is constructed: the destructor has not reached it.
Constructed(m) == Index(m) <= constructed
\* VoipCore is constructed and its destructor has not begun.
Whole == constructed = Len(Members)
vars == <<channels_, next_channel_id_, initialized_, lock_, chan, audio_senders,
          pc, op, held, ret, issued, released, sendFailed, sawOutcome,
          redundant, constructed, live>>

\* ---------------------------------------------------------------- helpers
\* What a call reported when it returned: "notfound" when GetChannel found no channel (the
\* method then returns false, an empty optional or nothing), otherwise
\* the bool it returned ("true" also for a void method that reached its
\* channel).  CreateChannel reports "id" (the ChannelId is the last entry
\* of issued) or "nullopt".
\* "none": the last step returned from no call.
NoRet == "none"
Ret(ok) == IF ok THEN "true" ELSE "false"

\* A channel as constructed: the registry's reference, both axes off.
NewChannel ==
    [refs |-> 1, alive |-> TRUE, sending |-> FALSE, playing |-> FALSE,
     called |-> FALSE]

\* What is left of a channel after ~AudioChannel.
Destroyed ==
    [refs |-> 0, alive |-> FALSE, sending |-> FALSE, playing |-> FALSE,
     called |-> FALSE]

\* scoped_refptr: dropping a reference destroys the channel with the last one.
Unref(ch, o) ==
    IF o = nullptr THEN ch
    ELSE IF ch[o].refs - 1 > 0 THEN [ch EXCEPT ![o].refs = @ - 1]
    ELSE [ch EXCEPT ![o] = Destroyed]

AddRef(ch, o) == [ch EXCEPT ![o].refs = @ + 1]

\* The channels of the map `m` that are sending.
LiveSenders(m, ch) == {m[i] : i \in {j \in DOMAIN m : ch[m[j]].sending}}

\* The channels the map holds.
Registered(m) == {m[i] : i \in DOMAIN m}

\* The elements of a sequence.
Range(s) == {s[i] : i \in DOMAIN s}

\* Faulty variant: the erase takes every mapping with it.
EraseAll(m, id) == << >>

Erase(m, id) == [i \in DOMAIN m \ {id} |-> m[i]]
Assign(m, id, o) == [i \in DOMAIN m \cup {id} |-> IF i = id THEN o ELSE m[i]]

TypeOK ==
    /\ DOMAIN channels_ \subseteq ChannelIds
    /\ DOMAIN chan = 1 .. Len(chan)
    /\ next_channel_id_ \in 0 .. MaxChannels
    /\ initialized_ \in BOOLEAN
    /\ lock_ \in Threads \cup {Unlocked}
    /\ Len(chan) <= MaxChannels
    /\ audio_senders \subseteq Objects
    /\ constructed \in 0 .. Len(Members)
    /\ live \subseteq SharedMembers \cup UniqueMembers
    /\ \A t \in Threads : held[t] \in Objects \cup {nullptr}

\* ------------------------------------------------------------------- Init
\* Lines 157, 161 and 165: next_channel_id_ = 0, an empty map, initialized_
\* = false.  No channel exists, no thread is in a call.
Init ==
    /\ channels_ = << >>
    /\ next_channel_id_ = 0
    /\ initialized_ = FALSE
    /\ lock_ = Unlocked
    /\ chan = << >>
    /\ audio_senders = {}
    /\ pc = [t \in Threads |-> "idle"]
    /\ op = [t \in Threads |-> "none"]
    /\ held = [t \in Threads |-> nullptr]
    /\ ret = NoRet
    /\ issued = << >>
    /\ released = [id \in ChannelIds |-> "no"]
    /\ sendFailed = {}
    /\ sawOutcome = [t \in Threads |-> "none"]
    /\ redundant = [t \in Threads |-> FALSE]
    /\ constructed = Len(Members)
    /\ live = SharedMembers \cup UniqueMembers

\* ------------------------------------------------------- pieces of the calls
\* Faulty variant: the lowest id without a mapping: a released id is given again.
ReuseFreedId(next, m) ==
    IF \E i \in 0 .. next : i \notin DOMAIN m
    THEN CHOOSE i \in 0 .. next : i \notin DOMAIN m /\ \A j \in 0 .. (i - 1) : j \in DOMAIN m
    ELSE next

\* Faulty variant: the number of mapped channels taken as the id.
IdFromMapSize(next, m) == Cardinality(DOMAIN m)

\* Faulty variant: the counter is advanced before it is read.
IdAfterIncrement(next, m) == next + 1

\* CreateChannel: the id given to a new channel is the counter's value.
AllocateId(next, m) == next

\* Faulty variant: a miss falls back to some mapped channel.
LookupAny(m, id) ==
    IF id \in DOMAIN m THEN m[id]
    ELSE IF DOMAIN m # {} THEN m[CHOOSE i \in DOMAIN m : TRUE]
    ELSE nullptr

\* Faulty variant: a hit returns some mapped channel, not the id's own.
LookupSome(m, id) ==
    IF id \in DOMAIN m THEN m[CHOOSE i \in DOMAIN m : \A j \in DOMAIN m : i <= j]
    ELSE nullptr

\* GetChannel's map access: the mapped channel, nullptr if there is none.
Lookup(m, id) == IF id \in DOMAIN m THEN m[id] ELSE nullptr

\* Faulty variant: a raw pointer: the caller takes no share in the channel.
BorrowRaw(ch, o) == ch

\* GetChannel returns a scoped_refptr: the caller shares ownership.
ShareRef(ch, o) == AddRef(ch, o)

\* Faulty variant: no rebuild: the set pushed before is pushed again.
StaleSenders(m, ch, cur) == cur

\* Faulty variant: every channel object that is sending, mapped or not.
AllSendingChannels(m, ch, cur) == {o \in DOMAIN ch : ch[o].sending}

\* Faulty variant: the set is emptied instead of rebuilt.
ClearSenders(m, ch, cur) == {}

\* The sender set a rebuild produces: the sending channels of the map; the
\* set pushed before (cur) plays no part.
GatherSenders(m, ch, cur) == LiveSenders(m, ch)

\* Faulty variant: the flag is not consulted: every call initializes the device.
AlwaysInitialize(init) == TRUE

\* InitializeIfNeeded with initialized_ = init: TRUE when the device must be
\* initialized now, FALSE when the call returns true at once.
MustInitialize(init) == ~init

\* Faulty variant: the flag is set whatever the attempt's outcome.
FlagAlwaysSet(ok) == TRUE

\* Faulty variant: the flag is never set.
FlagNeverSet(ok) == FALSE

\* Faulty variant: the failure path returns without releasing lock_.
LockKeptOnFailure(t, ok) == IF ok THEN Unlocked ELSE t

\* The holder of lock_ when InitializeIfNeeded, entered by thread t, returns
\* after an attempt that ended `ok`: the lock is released on every path.
LockAfterAttempt(t, ok) == Unlocked

\* Faulty variant: the flag records the failure instead of the success.
FlagInverted(ok) == ~ok

\* The value of initialized_ after an attempt that ended `ok`.
FlagAfterAttempt(ok) == ok

\* Where a call goes after a successful lookup: the start methods
\* initialize the device first, the others act on the channel.
AfterLookup(o) ==
    IF o \in StartOps THEN "init"
    ELSE IF o \in StopOps THEN "axis"
    ELSE "forward"

\* What the in-flight record keeps of the method called: the start and stop
\* methods differ in what they do next; the forwarding methods all do the
\* same, so one tag stands for them.
Running(o) == IF o \in DispatchOps THEN "forward" ELSE o

\* Faulty variant: the id is mapped although no channel was constructed.
InsertEmpty(m, id) == [i \in DOMAIN m \cup {id} |-> IF i = id THEN nullptr ELSE m[i]]

\* CreateChannel, construction failed: the map is left as it is.
MapAfterFailedConstruction(m, id) == m

\* The call of thread t returns: its local reference is gone.
Finish(t, r) ==
    /\ pc' = [pc EXCEPT ![t] = "idle"]
    /\ op' = [op EXCEPT ![t] = "none"]
    /\ ret' = r
    /\ held' = [held EXCEPT ![t] = nullptr]

\* ---------------------------------------------------------------- actions
\* CreateChannel: construct the AudioChannel, then under lock_ take the next
\* id, insert the channel and advance the counter.  A failed construction
\* returns nullopt and inserts nothing.
CreateChannel(t) ==
    /\ pc[t] = "idle"
    /\ Whole
    /\ UNCHANGED bundle
    /\ Len(chan) < MaxChannels
    /\ \/ /\ Finish(t, "nullopt")
          /\ channels_' = MapAfterFailedConstruction(channels_, next_channel_id_)
          /\ UNCHANGED <<next_channel_id_, chan, issued>>
       \/ /\ lock_ = Unlocked
          /\ LET id == AllocateId(next_channel_id_, channels_)
                 old == Lookup(channels_, id)
             IN /\ channels_' = Assign(channels_, id, Len(chan) + 1)
                /\ next_channel_id_' = next_channel_id_ + 1
                /\ chan' = Append(Unref(chan, old), NewChannel)
                /\ issued' = Append(issued, id)
                /\ Finish(t, "id")
    /\ UNCHANGED <<initialized_, lock_, audio_senders, released, sendFailed,
                   sawOutcome, redundant>>

\* ReleaseChannel: under lock_ remove the mapping (the registry's reference
\* goes with it) and rebuild the sender set; no mapping, no effect.
ReleaseChannelOf(t, id) ==
    /\ pc[t] = "idle"
    /\ Whole
    /\ UNCHANGED bundle
    /\ lock_ = Unlocked
    /\ IF id \in DOMAIN channels_
       THEN /\ channels_' = Erase(channels_, id)
            /\ chan' = Unref(chan, channels_[id])
            /\ audio_senders' = GatherSenders(channels_', chan', audio_senders)
       ELSE UNCHANGED <<channels_, chan, audio_senders>>
    /\ released' = [released EXCEPT ![id] =
                        IF id \in Range(issued) THEN "issued" ELSE "unissued"]
    /\ Finish(t, "true")
    /\ UNCHANGED <<next_channel_id_, initialized_, lock_, issued, sendFailed,
                   sawOutcome, redundant>>

\* Thread t calls ReleaseChannel with some ChannelId.
ReleaseChannel(t) == \E id \in ChannelIds : ReleaseChannelOf(t, id)

\* A keyed method starts with GetChannel: under lock_ find the id; a found
\* channel is returned as a shared reference, an id without mapping ends
\* the method with failure.
GetChannelOf(t, o, id) ==
    /\ pc[t] = "idle"
    /\ Whole
    /\ UNCHANGED bundle
    /\ lock_ = Unlocked
    /\ LET c == Lookup(channels_, id)
       IN IF c # nullptr
          THEN /\ op' = [op EXCEPT ![t] = Running(o)]
               /\ chan' = ShareRef(chan, c)
               /\ held' = [held EXCEPT ![t] = c]
               /\ pc' = [pc EXCEPT ![t] = AfterLookup(o)]
               /\ ret' = NoRet
          ELSE /\ Finish(t, "notfound")
               /\ chan' = chan
    /\ UNCHANGED <<registry, initialized_, lock_, audio_senders, history, redundant>>

\* Thread t calls one of the methods `ops` with some ChannelId.
GetChannel(t, ops) == \E o \in ops, id \in ChannelIds : GetChannelOf(t, o, id)

\* InitializeIfNeeded, entry: take lock_; initialized_ set returns true at
\* once, otherwise the device is initialized with lock_ held.
InitializeIfNeeded(t) ==
    /\ pc[t] = "init"
    /\ UNCHANGED bundle
    /\ lock_ = Unlocked
    /\ IF MustInitialize(initialized_)
       THEN /\ lock_' = t
            /\ pc' = [pc EXCEPT ![t] = "hw"]
            /\ sawOutcome' = sawOutcome
       ELSE /\ lock_' = lock_
            /\ pc' = [pc EXCEPT ![t] = "axis"]
            /\ sawOutcome' = [sawOutcome EXCEPT ![t] = "none"]
    /\ ret' = NoRet
    /\ UNCHANGED <<registry, initialized_, chan, audio_senders, op, held,
                   issued, released, sendFailed, redundant>>

\* InitializeIfNeeded, the attempt: the device initializes or fails to.  On
\* success initialized_ is set; on failure the call, and the StartSend or
\* StartPlayout that made it, return false.
InitDevice(t) ==
    /\ pc[t] = "hw"
    /\ UNCHANGED bundle
    /\ lock_ = t
    /\ \E ok \in BOOLEAN :
          /\ initialized_' = FlagAfterAttempt(ok)
          /\ sawOutcome' = [u \in Threads |->
                               IF u = t THEN "none"
                               ELSE IF pc[u] = "init"
                               THEN (IF ok THEN "ok" ELSE "fail")
                               ELSE sawOutcome[u]]
          /\ IF ok
             THEN /\ pc' = [pc EXCEPT ![t] = "axis"]
                  /\ ret' = NoRet
                  /\ UNCHANGED <<chan, op, held, sendFailed>>
             ELSE /\ Finish(t, "false")
                  /\ chan' = Unref(chan, held[t])
                  /\ sendFailed' = IF op[t] = "StartSend"
                                   THEN sendFailed \cup {held[t]} ELSE sendFailed
          /\ lock_' = LockAfterAttempt(t, ok)
    /\ UNCHANGED <<registry, audio_senders, issued, released, redundant>>

\* Faulty variant: one switch for both axes of the channel.
SetBothAxes(ch, o, on) == [ch EXCEPT ![o].sending = on, ![o].playing = on]

\* The channel's sending axis is switched; nothing else of it changes.
SetSending(ch, o, on) == [ch EXCEPT ![o].sending = on]

\* The channel's playout axis is switched; nothing else of it changes.
SetPlaying(ch, o, on) == [ch EXCEPT ![o].playing = on]

\* Faulty variant: a start or stop that changes nothing is reported as a failure.
StrictAxis(cur, want) == cur # want

\* Starting or stopping an axis that is already in the wanted state is
\* no error: the call goes on and succeeds.
AxisResult(cur, want) == TRUE

\* The call of thread t ends on its channel, returning ok.
FinishOn(t, ch, ok) ==
    /\ chan' = Unref(ch, held[t])
    /\ Finish(t, Ret(ok))

\* StartSend, on the channel: the sending axis goes on.
StartSend(t) ==
    /\ pc[t] = "axis" /\ op[t] = "StartSend"
    /\ UNCHANGED bundle
    /\ IF AxisResult(chan[held[t]].sending, TRUE)
       THEN /\ chan' = SetSending(chan, held[t], TRUE)
            /\ pc' = [pc EXCEPT ![t] = "update"]
            /\ ret' = NoRet
            /\ redundant' = [redundant EXCEPT ![t] = chan[held[t]].sending]
            /\ UNCHANGED <<op, held>>
       ELSE FinishOn(t, chan, FALSE) /\ UNCHANGED redundant
    /\ UNCHANGED <<registry, initialized_, lock_, audio_senders, history>>

\* StopSend, on the channel: the sending axis goes off.
StopSend(t) ==
    /\ pc[t] = "axis" /\ op[t] = "StopSend"
    /\ UNCHANGED bundle
    /\ IF AxisResult(chan[held[t]].sending, FALSE)
       THEN /\ chan' = SetSending(chan, held[t], FALSE)
            /\ pc' = [pc EXCEPT ![t] = "update"]
            /\ ret' = NoRet
            /\ redundant' = [redundant EXCEPT ![t] = ~chan[held[t]].sending]
            /\ UNCHANGED <<op, held>>
       ELSE FinishOn(t, chan, FALSE) /\ UNCHANGED redundant
    /\ UNCHANGED <<registry, initialized_, lock_, audio_senders, history>>

\* The rebuild with the audio device's outcome `ok`: under lock_ gather the
\* sending channels of the map and give the set to AudioTransportImpl; the
\* device is needed only when there is a sender to take input samples for.
\* StartSend and StopSend return what the rebuild returns.
RebuildAndPush(t, ok) ==
    /\ pc[t] = "update"
    /\ UNCHANGED bundle
    /\ lock_ = Unlocked
    /\ audio_senders' = GatherSenders(channels_, chan, audio_senders)
    /\ audio_senders' = {} => ok
    /\ FinishOn(t, chan, ok)
    /\ redundant' = [redundant EXCEPT ![t] = FALSE]
    /\ UNCHANGED <<registry, initialized_, lock_, history>>

\* UpdateAudioTransportWithSenders: "Updates AudioTransportImpl with a new
\* set of actively sending AudioSender ... Returns false when the selected
\* audio device fails to initialize".
UpdateAudioTransportWithSenders(t) == \E ok \in BOOLEAN : RebuildAndPush(t, ok)

\* StartPlayout, on the channel: the playout axis goes on.
StartPlayout(t) ==
    /\ pc[t] = "axis" /\ op[t] = "StartPlayout"
    /\ UNCHANGED bundle
    /\ LET ok == AxisResult(chan[held[t]].playing, TRUE)
       IN FinishOn(t, IF ok THEN SetPlaying(chan, held[t], TRUE) ELSE chan, ok)
    /\ UNCHANGED <<registry, initialized_, lock_, audio_senders, history, redundant>>

\* StopPlayout, on the channel: the playout axis goes off.
StopPlayout(t) ==
    /\ pc[t] = "axis" /\ op[t] = "StopPlayout"
    /\ UNCHANGED bundle
    /\ LET ok == AxisResult(chan[held[t]].playing, FALSE)
       IN FinishOn(t, IF ok THEN SetPlaying(chan, held[t], FALSE) ELSE chan, ok)
    /\ UNCHANGED <<registry, initialized_, lock_, audio_senders, history, redundant>>

\* ReceivedRTPPacket .. GetIngressStatistics: forward the call to the channel.
Dispatch(t) ==
    /\ pc[t] = "forward"
    /\ UNCHANGED bundle
    /\ FinishOn(t, [chan EXCEPT ![held[t]].called = TRUE], TRUE)
    /\ UNCHANGED <<registry, initialized_, lock_, audio_senders, history, redundant>>

\* All the methods of VoipCore.
Next ==
    \E t \in Threads :
        \/ CreateChannel(t)
        \/ ReleaseChannel(t)
        \/ GetChannel(t, LookupOps)
        \/ InitializeIfNeeded(t)
        \/ InitDevice(t)
        \/ StartSend(t)
        \/ StopSend(t)
        \/ UpdateAudioTransportWithSenders(t)
        \/ StartPlayout(t)
        \/ StopPlayout(t)
        \/ Dispatch(t)

Spec == Init /\ [][Next]_vars

\* VoipBase alone: the registry and the two axes.
NextBase ==
    \E t \in Threads :
        \/ CreateChannel(t)
        \/ ReleaseChannel(t)
        \/ GetChannel(t, StartOps \cup StopOps)
        \/ InitializeIfNeeded(t)
        \/ InitDevice(t)
        \/ StartSend(t)
        \/ StopSend(t)
        \/ UpdateAudioTransportWithSenders(t)
        \/ StartPlayout(t)
        \/ StopPlayout(t)

SpecBase == Init /\ [][NextBase]_vars

\* The registry and the sending axis.
NextSend ==
    \E t \in Threads :
        \/ CreateChannel(t)
        \/ ReleaseChannel(t)
        \/ GetChannel(t, {"StartSend", "StopSend"})
        \/ InitializeIfNeeded(t)
        \/ InitDevice(t)
        \/ StartSend(t)
        \/ StopSend(t)
        \/ UpdateAudioTransportWithSenders(t)

SpecSend == Init /\ [][NextSend]_vars

\* The registry and the forwarded calls.
NextDispatch ==
    \E t \in Threads :
        \/ CreateChannel(t)
        \/ ReleaseChannel(t)
        \/ GetChannel(t, DispatchOps)
        \/ Dispatch(t)

SpecDispatch == Init /\ [][NextDispatch]_vars

\* ~VoipCore() = default: the members are destroyed one by one in reverse
\* declaration order.  The destructor runs when no call is in progress on
\* the object.  A unique_ptr member takes its object with it; a
\* scoped_refptr member drops one reference, and the object goes only if
\* that was the last one (the constructor takes these objects from its
\* caller, who may keep references of their own); the map drops the
\* registry's reference to every channel.
DestroyMember ==
    /\ constructed > 0
    /\ \A t \in Threads : pc[t] = "idle"
    /\ LET m == Members[constructed]
       IN /\ constructed' = constructed - 1
          /\ IF m \in UniqueMembers THEN live' = live \ {m}
             ELSE IF m \in SharedMembers
             THEN \E last \in BOOLEAN : live' = IF last THEN live \ {m} ELSE live
             ELSE live' = live
          /\ IF m = "channels_"
             THEN /\ channels_' = << >>
                  /\ chan' = [o \in DOMAIN chan |->
                                 IF o \in Registered(channels_)
                                 THEN Unref(chan, o)[o] ELSE chan[o]]
             ELSE UNCHANGED <<channels_, chan>>
    /\ ret' = NoRet
    /\ UNCHANGED <<next_channel_id_, initialized_, lock_, audio_senders, pc, op,
                   held, history, redundant>>

\* The registry, the forwarded calls and the destructor.
NextTeardown ==
    \/ \E t \in Threads :
          \/ CreateChannel(t)
          \/ ReleaseChannel(t)
          \/ GetChannel(t, DispatchOps)
          \/ Dispatch(t)
    \/ DestroyMember

SpecTeardown == Init /\ [][NextTeardown]_vars

\* The steps of a call in progress that wait for lock_.
Acquire(t) == InitializeIfNeeded(t) \/ UpdateAudioTransportWithSenders(t)

\* The steps of a call in progress that need no lock to be granted: the
\* device initialization (lock_ already held) and the call on the channel.
Proceed(t) ==
    \/ InitDevice(t)
    \/ StartSend(t)
    \/ StopSend(t)
    \/ StartPlayout(t)
    \/ StopPlayout(t)

\* VoipBase under fair scheduling: a thread inside a call keeps running
\* (weak fairness of its lock-free steps), and a thread waiting for lock_
\* gets it if the lock is free again and again (strong fairness of its
\* locking steps).  Nothing obliges a caller to make a call.
FairBase ==
    /\ Init /\ [][NextBase]_vars
    /\ \A t \in Threads : WF_vars(Proceed(t)) /\ SF_vars(Acquire(t))

\* ------------------------------------------------------------------ claims
\* C1: every ChannelId returned by a successful CreateChannel differs from
\*     every id returned by an earlier CreateChannel, whether or not that
\*     channel has been released since: an id is never issued twice.
C1_IdsNeverReissued ==
    \A i, j \in DOMAIN issued : i # j => issued[i] # issued[j]

\* Two ids have been issued and the first one's channel has been released.
C1_Witness ==
    /\ Len(issued) = 2
    /\ released[issued[1]] = "issued"
    /\ ~chan[1].alive

\* C2, as stated: once ReleaseChannel(id) has returned, id has no mapping,
\*     so every later lookup of it fails.
C2_ReleasedIdStaysUnknown ==
    \A id \in ChannelIds : released[id] # "no" => id \notin DOMAIN channels_

\* C2, amended: once ReleaseChannel(id) has returned for an id that
\*     CreateChannel had issued, id has no mapping ever after, and every
\*     later method keyed by id ends at its lookup with failure, holding no
\*     channel, however many channels are created or released meanwhile
\*     (a step of an idle thread that is not such a failed return is not a
\*     call keyed by a released id).
C2_ReleasedIssuedIdStaysUnknown ==
    /\ [](\A id \in ChannelIds :
             released[id] = "issued" => id \notin DOMAIN channels_)
    /\ [][\A t \in Threads :
             (/\ pc[t] = "idle"
              /\ ~(pc'[t] = "idle" /\ ret' = "notfound" /\ held'[t] = nullptr)) =>
                 \A id \in ChannelIds :
                     released[id] = "issued" =>
                         \A o \in LookupOps : ~GetChannelOf(t, o, id)]_vars

\* Id 0 was issued and released, a later channel is mapped, and a call has
\* just failed at its lookup.
C2_Witness ==
    /\ Len(issued) = 2
    /\ released[issued[1]] = "issued"
    /\ issued[2] \in DOMAIN channels_
    /\ ret = "notfound"

C5_OneAttemptOneOutcome ==
    [][\A u \in Threads :
          (pc[u] = "init" /\ sawOutcome[u] # "none" /\ pc'[u] # "init") =>
              /\ pc'[u] # "hw"
              /\ sawOutcome[u] = "ok" <=> pc'[u] = "axis"]_vars

\* C5, amended: the attempts are serialized by lock_ and made only while
\*     initialized_ is false; once an attempt has succeeded the flag stays
\*     set and no further attempt is made, so at most one attempt succeeds;
\*     a call that waited while another call's attempt succeeded returns
\*     true without attempting; a call that waited while another call's
\*     attempt failed makes an attempt of its own (whose outcome may differ).
C5_AttemptsSerializedUntilSuccess ==
    /\ [](\A t \in Threads : pc[t] = "hw" => (~initialized_ /\ lock_ = t))
    /\ [][initialized_ => initialized_']_vars
    /\ [][\A u \in Threads :
             (pc[u] = "init" /\ pc'[u] # "init") =>
                 /\ sawOutcome[u] = "ok" => pc'[u] = "axis"
                 /\ sawOutcome[u] = "fail" => pc'[u] = "hw"
                 /\ pc'[u] = "hw" <=> ~initialized_]_vars

\* A call that waited while a concurrent attempt failed is now making its
\* own attempt: the second attempt of two concurrent calls.
C5_Witness ==
    \E u \in Threads :
        /\ pc[u] = "hw"
        /\ sawOutcome[u] = "fail"
        /\ lock_ = u
        /\ ~initialized_

\* C6: a channel that has been destroyed is neither in the map nor held by
\*     any call in flight; so a channel whose mapping ReleaseChannel removes
\*     while a call holds a reference from GetChannel stays alive until that
\*     call drops the reference.
C6_DestroyedOnlyWhenUnreferenced ==
    \A o \in DOMAIN chan :
        /\ ~chan[o].alive =>
              /\ o \notin Registered(channels_)
              /\ \A t \in Threads : held[t] # o
        /\ (o \notin Registered(channels_) /\ \A t \in Threads : held[t] # o) =>
              ~chan[o].alive

\* A call in flight holds a channel that ReleaseChannel has taken out of the
\* map; the channel is alive.
C6_Witness ==
    \E t \in Threads :
        /\ held[t] # nullptr
        /\ pc[t] # "idle"
        /\ held[t] \notin Registered(channels_)
        /\ chan[held[t]].alive
        /\ chan[held[t]].refs = 1

C8_RetryAfterFailedInitSucceeds ==
    [][\A t \in Threads :
          (op[t] = "StartSend" /\ held[t] \in sendFailed) =>
              /\ (pc[t] = "init" /\ pc'[t] # "init" /\ ~initialized_) =>
                    pc'[t] = "hw"
              /\ (pc[t] = "hw" /\ pc'[t] = "axis") => initialized_'
              /\ (pc[t] = "axis" /\ pc'[t] # "axis") =>
                    /\ pc'[t] = "update"
                    /\ initialized_
                    /\ chan'[held[t]].sending
              /\ (pc[t] = "update" /\ pc'[t] # "update") =>
                    /\ pc'[t] = "idle"
                    /\ initialized_'
                    /\ (held[t] \in Registered(channels_) /\ chan[held[t]].sending) =>
                          held[t] \in audio_senders'
                    /\ RebuildAndPush(t, TRUE) => ret' = "true"
                    /\ RebuildAndPush(t, FALSE) => ret' = "false"]_vars

\* A channel on which a StartSend failed is in the sender set after a later
\* StartSend returned true.
C8_Witness ==
    /\ ret = "true"
    /\ initialized_
    /\ \E o \in sendFailed : o \in audio_senders /\ chan[o].sending

\* C9: a method keyed by an id that has no mapping (never issued, or
\*     released) ends at its lookup: it reports failure, holds no channel,
\*     and the map, the id counter, every channel, the sender set,
\*     initialized_ and lock_ are unchanged, so no initialization is
\*     attempted (a step of an idle thread that is not such a return is not
\*     a call keyed by an unmapped id).
C9_UnknownIdHasNoEffect ==
    [][\A t \in Threads :
          (/\ pc[t] = "idle"
           /\ ~(/\ pc'[t] = "idle"
                /\ ret' = "notfound"
                /\ held'[t] = nullptr
                /\ UNCHANGED <<channels_, next_channel_id_, chan, audio_senders,
                               initialized_, lock_>>)) =>
              \A id \in ChannelIds \ DOMAIN channels_ :
                  \A o \in LookupOps : ~GetChannelOf(t, o, id)]_vars

\* A call has just failed at its lookup while one channel is mapped and
\* sending: the id it passed is the other one.
C9_Witness ==
    /\ ret = "notfound"
    /\ Cardinality(DOMAIN channels_) = 1
    /\ audio_senders = Registered(channels_)
    /\ \A t \in Threads : pc[t] = "idle"

C12_ReleaseChangesOnlyItsMapping ==
    [][\A t \in Threads :
          (pc[t] = "idle" /\ pc'[t] = "idle" /\ ret' = "true") =>
              \A id \in ChannelIds :
                  ReleaseChannelOf(t, id) =>
                      /\ id \notin DOMAIN channels_'
                      /\ DOMAIN channels_' = DOMAIN channels_ \ {id}
                      /\ \A j \in DOMAIN channels_' : channels_'[j] = channels_[j]
                      /\ next_channel_id_' = next_channel_id_
                      /\ id \notin DOMAIN channels_ =>
                            UNCHANGED <<channels_, chan, audio_senders>>]_vars

\* Ids 0 and 1 were issued, a ReleaseChannel has just returned, 0 has been
\* released and has no mapping, 1 is still mapped.
C12_Witness ==
    /\ ret = "true"
    /\ Len(issued) = 2
    /\ released[0] = "issued"
    /\ released[1] = "no"
    /\ DOMAIN channels_ = {1}
    /\ \A t \in Threads : pc[t] = "idle"

\* C13: the ids successful CreateChannel calls return are strictly
\*     increasing in the order of the calls and start at 0, whatever
\*     ReleaseChannel calls come in between.
C13_IdsStrictlyIncreasingFromZero ==
    /\ Len(issued) >= 1 => issued[1] = 0
    /\ \A i, j \in DOMAIN issued : i < j => issued[i] < issued[j]
    /\ \A i \in DOMAIN issued : issued[i] < next_channel_id_

\* A CreateChannel has just returned the second id after id 0 was released
\* and lost its mapping.
C13_Witness ==
    /\ ret = "id"
    /\ Len(issued) = 2
    /\ released[0] = "issued"
    /\ 0 \notin DOMAIN channels_
    /\ issued[2] \in DOMAIN channels_

\* C14: a CreateChannel whose channel construction fails returns no id
\*     (nullopt) and inserts nothing: the map, the id counter, the channels,
\*     the ids issued and the sender set are as before the call.
C14_FailedConstructionInsertsNothing ==
    [][\A t \in Threads :
          (pc[t] = "idle" /\ pc'[t] = "idle" /\ ret' = "nullopt") =>
              /\ UNCHANGED <<channels_, next_channel_id_, chan, issued,
                             audio_senders>>
              /\ held'[t] = nullptr]_vars

\* A CreateChannel has just failed while one channel is mapped and sending.
C14_Witness ==
    /\ ret = "nullopt"
    /\ Len(issued) = 1
    /\ DOMAIN channels_ = {0}
    /\ audio_senders = {channels_[0]}

\* C15: a channel is created with both axes off and outside the sender
\*     set; no step of a StartPlayout or StopPlayout changes the sending
\*     axis of any channel or the sender set; no step of a StartSend or
\*     StopSend changes the playout axis of any channel.
C15_AxesAreIndependent ==
    [][\A t \in Threads :
          /\ (pc[t] = "idle" /\ pc'[t] = "idle" /\ ret' = "id") =>
                /\ Len(chan') = Len(chan) + 1
                /\ ~chan'[Len(chan')].sending
                /\ ~chan'[Len(chan')].playing
                /\ Len(chan') \notin audio_senders'
          /\ (pc'[t] # pc[t] /\ (op[t] \in {"StartPlayout", "StopPlayout"}
                                 \/ op'[t] \in {"StartPlayout", "StopPlayout"})) =>
                /\ audio_senders' = audio_senders
                /\ \A o \in DOMAIN chan :
                      chan'[o].alive => chan'[o].sending = chan[o].sending
          /\ (pc'[t] # pc[t] /\ (op[t] \in {"StartSend", "StopSend"}
                                 \/ op'[t] \in {"StartSend", "StopSend"})) =>
                \A o \in DOMAIN chan :
                    chan'[o].alive => chan'[o].playing = chan[o].playing]_vars

\* One channel is sending and not playing, the other is playing and not
\* sending; only the first is in the sender set.
C15_Witness ==
    /\ Len(chan) = 2
    /\ chan[1].sending /\ ~chan[1].playing
    /\ chan[2].playing /\ ~chan[2].sending
    /\ audio_senders = {1}
    /\ \A t \in Threads : pc[t] = "idle"

\* C16: a forwarded call (received RTP or RTCP, codec, DTMF, statistics)
\*     keyed by a mapped id X takes the channel mapped under X and no other,
\*     and reaches that channel and no other: its lookup changes neither the
\*     map nor any channel's state (only the reference count of X's
\*     channel), and its forwarding step leaves the map, the id counter, the
\*     sender set, every other channel and the axes of its own channel as
\*     they were.
C16_DispatchRoutesById ==
    [][\A t \in Threads :
          /\ (pc[t] = "idle" /\ pc'[t] = "forward") =>
                \A X \in ChannelIds, o \in DispatchOps :
                    GetChannelOf(t, o, X) =>
                        /\ X \in DOMAIN channels_
                        /\ held'[t] = channels_[X]
                        /\ UNCHANGED <<channels_, next_channel_id_, audio_senders>>
                        /\ \A c \in DOMAIN chan :
                              /\ c # held'[t] => chan'[c] = chan[c]
                              /\ chan'[c].sending = chan[c].sending
                              /\ chan'[c].playing = chan[c].playing
                              /\ chan'[c].called = chan[c].called
          /\ (pc[t] = "forward" /\ pc'[t] = "idle") =>
                /\ ret' = "true"
                /\ UNCHANGED <<channels_, next_channel_id_, audio_senders>>
                /\ chan'[held[t]].alive =>
                      /\ chan'[held[t]].called
                      /\ chan'[held[t]].sending = chan[held[t]].sending
                      /\ chan'[held[t]].playing = chan[held[t]].playing
                /\ \A c \in DOMAIN chan \ {held[t]} : chan'[c] = chan[c]]_vars

\* Two channels are mapped; a forwarded call has just returned from the
\* second one, the first one was never called.
C16_Witness ==
    /\ ret = "true"
    /\ DOMAIN channels_ = {0, 1}
    /\ chan[channels_[1]].called
    /\ ~chan[channels_[0]].called
    /\ \A t \in Threads : pc[t] = "idle"

C19_InitializedOnceAndForAll ==
    /\ [](\A t \in Threads : pc[t] = "hw" => ~initialized_ /\ lock_ = t)
    /\ [][initialized_ => initialized_']_vars
    /\ [][\A t \in Threads :
            /\ (pc[t] = "init" /\ pc'[t] # "init" /\ initialized_) =>
                  /\ pc'[t] = "axis"
                  /\ lock_' = Unlocked
                  /\ ret' = NoRet
            /\ (pc[t] = "hw" /\ pc'[t] = "axis") => ~initialized_ /\ initialized_'
            /\ (pc[t] = "hw" /\ pc'[t] = "idle") =>
                  ~initialized_' /\ ret' = "false"]_vars

\* The device is initialized and both threads are past InitializeIfNeeded
\* in a start call: one of them made the attempt, the other found the flag
\* set.
C19_Witness ==
    /\ initialized_
    /\ \A t \in Threads : pc[t] = "axis" /\ op[t] \in StartOps

====
